---------------------------- MODULE Spec2Model ----------------------------
(***************************************************************************)
(* Model of the PortfolioManager controller of src/main.js: the lifecycle  *)
(* (init / destroy), the typing cycle with its timers and its              *)
(* AbortController, the animation-frame throttled scroll and resize        *)
(* handlers, the particle generator, and the page-level listeners          *)
(* (visibilitychange, orientationchange).                                  *)
(*                                                                         *)
(* Every action is one browser task: a call of a public method, one event  *)
(* dispatch, one timer callback or one rendered frame, together with the   *)
(* promise continuations (microtasks) that run at the end of that task.    *)
(***************************************************************************)
EXTENDS Integers, Sequences, FiniteSets, TLC

(***************************************************************************)
(* Bounds of the model.                                                    *)
(***************************************************************************)
\* number of init() calls that run the initialization sequence
MaxInits == 2
\* number of characters of each typing text that the model keeps
TextLen == 2
\* animation-frame callbacks of one handler that may be pending
MaxRaf == 2
\* 100 ms timers of the orientationchange listener that may be pending
MaxOrientTimers == 1
\* submit handlers that may wait for a timer
MaxSubmissions == 3
\* length of the email values that validateForm is applied to
MaxEmailLen == 6

(***************************************************************************)
(* Program constants.                                                      *)
(***************************************************************************)
config ==
    [ particles |-> [ count |-> 50, maxCount |-> 100, minCount |-> 20 ],
      typing    |-> [ speed |-> 150, pauseBetweenTexts |-> 2000,
                      initialDelay |-> 2000 ],
      scroll    |-> [ navbarThreshold |-> 50, revealOffset |-> 150 ] ]

texts ==
    << << "J", "u", "n", "i", "o", "r", " ", "F", "r", "o", "n", "t", "-",
          "e", "n", "d", " ", "D", "e", "v", "e", "l", "o", "p", "e", "r" >>,
       << "R", "e", "a", "c", "t", " ", "E", "n", "t", "h", "u", "s", "i",
          "a", "s", "t" >>,
       << "C", "r", "e", "a", "t", "i", "v", "e", " ", "P", "r", "o", "b",
          "l", "e", "m", " ", "S", "o", "l", "v", "e", "r" >>,
       << "U", "I", "/", "U", "X", " ", "D", "e", "s", "i", "g", "n", "e",
          "r" >> >>

Min(a, b) == IF a < b THEN a ELSE b
Max(a, b) == IF a > b THEN a ELSE b

\* texts[currentIndex] of runCycle (currentIndex is 0-based in the source),
\* cut to the first TextLen characters
TextAt(currentIndex) ==
    LET t == texts[currentIndex + 1] IN SubSeq(t, 1, Min(TextLen, Len(t)))

\* text.charAt(i), i 0-based
charAt(text, i) == text[i + 1]

(***************************************************************************)
(* The page the script runs on (the DOM contract of the controller).       *)
(***************************************************************************)
ElementIds == {"bgAnimation", "typingText", "navbar", "contactForm"}

\* window.innerHeight and the document offset of the one .fade-in element
WindowHeight == 200
FadeInTop == 100

\* scroll positions the environment may produce (around navbarThreshold)
ScrollYs == {50, 51}

\* viewport widths around the two limits of createParticles
Widths == {1023, 1024, 1920, 1921}
\* window.devicePixelRatio, in halves: 0 = undefined, 2 = 1.0, 3 = 1.5, 4 = 2.0
Dprs2 == {0, 2, 3, 4}
\* the width the resize events of the lifecycle specification report (the
\* particle specification resizes over all of Widths)
LifecycleWidths == {1023}

VARIABLES
    \* ---- fields of the PortfolioManager instance
    isInitialized, isDestroyed, activeAnimations, typingController,
    particleContainer, elements, handlers, scrollTicking, resizeTicking,
    \* ---- closures and pending callbacks
    cycles,          \* one record per initTypingAnimation() call
    timers,          \* the cycles with a pending timer, oldest timer first
    rafScroll,       \* pending animation-frame callbacks of handleScroll
    rafResize,       \* pending animation-frame callbacks of handleResize
    orientTimers,    \* pending 100 ms timers of the orientationchange listener
    \* ---- the page
    typingHTML,      \* innerHTML of #typingText
    navbarScrolled,  \* #navbar has class 'scrolled'
    fadeVisible,     \* the .fade-in element has class 'visible'
    particles,       \* number of .particle nodes in #bgAnimation
    bound,           \* listeners bound on the form, the anchors, the cards
    windowListeners, \* scroll / resize listeners registered on window
    \* ---- the environment
    now,             \* the last value Date.now() returned
    hidden,          \* document.hidden
    scrollY, viewport, dom,
    \* ---- the contact form
    form,            \* the values of the fields name, email, message
    btn,             \* the .submit-btn control
    submissions,     \* the submit handlers that wait for a timer
    alertMsg,        \* the text of the last alert()
    isValid,         \* the result of the last validateForm() call
    \* ---- console output and bookkeeping
    lastLog,         \* last console message
    lifecycle,       \* last of init() / destroy() that was called
    inits,           \* init() calls that ran the sequence
    calls,           \* handleScroll / handleResize was called since the last
                     \* frame while a frame request of it was pending
    passes           \* update passes run by the last rendered frame

ctlVars == << isInitialized, isDestroyed, activeAnimations, typingController,
              particleContainer, elements, handlers, scrollTicking,
              resizeTicking >>
taskVars == << cycles, timers, rafScroll, rafResize, orientTimers >>
pageVars == << typingHTML, navbarScrolled, fadeVisible, particles, bound,
               windowListeners >>
envVars == << now, hidden, scrollY, viewport, dom >>
logVars == << lastLog, lifecycle, inits, calls, passes >>
formVars == << form, btn, submissions, alertMsg, isValid >>
vars == << ctlVars, taskVars, pageVars, envVars, formVars, logVars >>

(***************************************************************************)
(* getElement(id): the cached reference, else document.getElementById.     *)
(***************************************************************************)
\* getElement(id) returns an element
getElement(els, id) == id \in els \/ id \in dom
\* a cache that keeps an entry for every id that was looked up
getElementCacheAlways(els, id) == els \cup {id}

\* the cache after getElement(id)
getElementCache(els, id) == IF getElement(els, id) THEN els \cup {id} ELSE els

(***************************************************************************)
(* createParticles: the particle count.  Counts are kept in halves         *)
(* (count2 = 2 * particleCount) because particleCount / 2 and              *)
(* particleCount * 1.5 are floating-point operations.                      *)
(***************************************************************************)
\* a count whose wide-viewport limit includes 1920
particleCount2Inclusive(vp) ==
    LET screenWidth == vp.width
        devicePixelRatio2 == IF vp.dpr2 = 0 THEN 2 ELSE vp.dpr2
        isLowEndDevice == devicePixelRatio2 < 4 /\ screenWidth < 1024
        count == config.particles.count
    IN  IF isLowEndDevice
          THEN Max(2 * config.particles.minCount, count)
          ELSE IF screenWidth >= 1920
                 THEN Min(2 * config.particles.maxCount, 3 * count)
                 ELSE 2 * count

particleCount2(vp) ==
    LET screenWidth == vp.width
        devicePixelRatio2 == IF vp.dpr2 = 0 THEN 2 ELSE vp.dpr2
        isLowEndDevice == devicePixelRatio2 < 4 /\ screenWidth < 1024
        count == config.particles.count
    IN  IF isLowEndDevice
          THEN Max(2 * config.particles.minCount, count)
          ELSE IF screenWidth > 1920
                 THEN Min(2 * config.particles.maxCount, 3 * count)
                 ELSE 2 * count

\* iterations of  for (let i = 0; i < particleCount; i++)
particleNodes(vp) == (particleCount2(vp) + 1) \div 2

\* the number logged by createParticles (integral for the default config)
particleCountLogged(vp) == particleCount2(vp) \div 2

(***************************************************************************)
(* The typing cycle.  A cycle record is the closure of one                 *)
(* initTypingAnimation() call (animationId, currentIndex) with the state   *)
(* of its current typeWriter call (i, the AbortController).  Its phase     *)
(* says which callback of the cycle is pending:                            *)
(*   "initialDelay"  the setTimeout of lines 191-195                       *)
(*   "typing"        typeWriter awaits the character timer (line 133)      *)
(*   "pause"         the setTimeout of lines 182-186                       *)
(*   "dead"          no callback of the cycle is pending                   *)
(* The controller of cycle k is named k: typeWriter replaces it by a new   *)
(* one on each call, and nothing references the replaced one.              *)
(***************************************************************************)
NoController == 0

\* the delay of the pending timer of a cycle
delay(c) ==
    IF c.phase = "typing" THEN config.typing.speed
    ELSE IF c.phase = "pause" THEN config.typing.pauseBetweenTexts
    ELSE config.typing.initialDelay

\* setTimeout callbacks run in the order of their expiry: a timer does not
\* fire before a timer that was started earlier with a delay that is not
\* longer
canFire(k) ==
    \E p \in DOMAIN timers :
       /\ timers[p] = k
       /\ \A q \in 1..(p - 1) : delay(cycles[timers[q]]) > delay(cycles[k])

\* the timer queue without the timer of cycle k (it fired or was cleared)
removeTimer(q, k) == SelectSeq(q, LAMBDA j : j # k)

\* the timer queue after a step of cycle k: its timer is gone, and the cycle
\* has started a new one unless it has ended
requeue(q, k, c) ==
    IF c.phase = "dead" THEN removeTimer(q, k)
                        ELSE Append(removeTimer(q, k), k)

newCycle(animationId) ==
    [ animationId |-> animationId, phase |-> "initialDelay",
      currentIndex |-> 0, i |-> 0, aborted |-> FALSE, result |-> "none" ]

\* c.result is the outcome of the last typeWriter call of the cycle:
\* "none" (no call yet, or the call is in flight), "true" (line 140),
\* "false@128" (the loop saw the flag or the signal, line 128) and
\* "false@145" (the awaited promise was rejected, lines 141-145)
returnedFalse(c) == c.result \in {"false@117", "false@128", "false@145"}

\* the cycle ends: runCycle returns without scheduling anything
ended(c, result) ==
    [ c EXCEPT !.phase = "dead", !.currentIndex = 0, !.i = 0,
               !.result = result ]

\* an abort that only sets the flag of the signal: no abort listener
abortNoListener(c) == [ c EXCEPT !.aborted = TRUE ]

\* controller.abort(): the abort listeners clear the character timer and
\* reject the awaited promise; typeWriter's catch returns false and runCycle
\* (success = false) schedules nothing
abort(c) ==
    IF c.phase = "typing"
      THEN [ ended(c, "false@145") EXCEPT !.aborted = TRUE ]
      ELSE [ c EXCEPT !.aborted = TRUE ]

\* runCycle() of cycle k, called from a timer callback
runCycle(k) ==
    LET c == cycles[k] IN
    IF isDestroyed \/ c.animationId \notin activeAnimations
      THEN /\ cycles' = [cycles EXCEPT ![k] = ended(c, c.result)]
           /\ UNCHANGED << typingHTML, typingController >>
      ELSE \* typeWriter(texts[currentIndex], typingElement, speed)
           IF isDestroyed
             THEN /\ cycles' = [cycles EXCEPT ![k] = ended(c, "false@117")]
                  /\ UNCHANGED << typingHTML, typingController >>
             ELSE /\ typingController' = k
                  /\ typingHTML' = << charAt(TextAt(c.currentIndex), 0) >>
                  /\ cycles' = [cycles EXCEPT ![k] =
                         [ c EXCEPT !.phase = "typing", !.i = 0,
                                    !.aborted = FALSE, !.result = "none" ]]

\* the callback of the initial-delay timer (lines 191-195)
InitialDelayTimer(k) ==
    /\ k \in DOMAIN cycles
    /\ cycles[k].phase = "initialDelay"
    /\ canFire(k)
    /\ IF ~isDestroyed
         THEN runCycle(k)
         ELSE /\ cycles' = [cycles EXCEPT ![k] = ended(cycles[k], "none")]
              /\ UNCHANGED << typingHTML, typingController >>
    /\ timers' = requeue(timers, k, cycles'[k])
    /\ UNCHANGED formVars
    /\ UNCHANGED << isInitialized, isDestroyed, activeAnimations,
                    particleContainer, elements, handlers, scrollTicking,
                    resizeTicking, rafScroll, rafResize, orientTimers,
                    navbarScrolled, fadeVisible, particles, bound,
                    windowListeners, envVars, logVars >>

\* the character timer of typeWriter fires: the awaited promise resolves and
\* the loop goes on (lines 126-140), then runCycle (lines 178-187)
CharTimer(k) ==
    /\ k \in DOMAIN cycles
    /\ cycles[k].phase = "typing"
    /\ canFire(k)
    /\ LET c == cycles[k]
           text == TextAt(c.currentIndex)
           i == c.i + 1
       IN IF i < Len(text)
            THEN IF c.aborted \/ isDestroyed
                   THEN /\ cycles' = [cycles EXCEPT ![k] = ended(c, "false@128")]
                        /\ UNCHANGED typingHTML
                   ELSE /\ typingHTML' = Append(typingHTML, charAt(text, i))
                        /\ cycles' = [cycles EXCEPT ![k].i = i]
            ELSE \* typeWriter returns true
                 /\ UNCHANGED typingHTML
                 /\ IF ~isDestroyed
                      THEN cycles' = [cycles EXCEPT ![k] =
                             [ c EXCEPT !.phase = "pause", !.i = 0,
                                 !.result = "true",
                                 !.currentIndex =
                                     (c.currentIndex + 1) % Len(texts) ]]
                      ELSE cycles' = [cycles EXCEPT ![k] = ended(c, "true")]
    /\ timers' = requeue(timers, k, cycles'[k])
    /\ UNCHANGED formVars
    /\ UNCHANGED << ctlVars, rafScroll, rafResize, orientTimers,
                    navbarScrolled, fadeVisible, particles, bound,
                    windowListeners, envVars, logVars >>

\* the callback of the pause timer (lines 182-186)
PauseTimer(k) ==
    /\ k \in DOMAIN cycles
    /\ cycles[k].phase = "pause"
    /\ canFire(k)
    /\ IF ~isDestroyed /\ cycles[k].animationId \in activeAnimations
         THEN runCycle(k)
         ELSE /\ cycles' = [cycles EXCEPT ![k] = ended(cycles[k], "true")]
              /\ UNCHANGED << typingHTML, typingController >>
    /\ timers' = requeue(timers, k, cycles'[k])
    /\ UNCHANGED formVars
    /\ UNCHANGED << isInitialized, isDestroyed, activeAnimations,
                    particleContainer, elements, handlers, scrollTicking,
                    resizeTicking, rafScroll, rafResize, orientTimers,
                    navbarScrolled, fadeVisible, particles, bound,
                    windowListeners, envVars, logVars >>

(***************************************************************************)
(* Scroll handling.                                                        *)
(***************************************************************************)
\* updateNavbar: the class 'scrolled' of #navbar after the call
updateNavbar(els) ==
    IF getElement(els, "navbar")
      THEN scrollY > config.scroll.navbarThreshold
      ELSE navbarScrolled

\* revealOnScroll: the class 'visible' of the .fade-in element after the call
revealOnScroll ==
    LET rectTop == FadeInTop - scrollY
    IN  fadeVisible \/ rectTop < WindowHeight - config.scroll.revealOffset

\* a handleScroll() that does not look at scrollTicking
handleScrollUnthrottled(st) ==
    IF isDestroyed THEN st ELSE << TRUE, st[2] + 1 >>

\* handleScroll(): << scrollTicking, rafScroll >> after the call
handleScroll(st) ==
    IF st[1] \/ isDestroyed THEN st ELSE << TRUE, st[2] + 1 >>

\* handleResize(): << resizeTicking, rafResize >> after the call
handleResize(st) ==
    IF st[1] THEN st ELSE << TRUE, st[2] + 1 >>

\* the dispatch of one event: the handler is called once per registered
\* listener (every listener is handleScroll / handleResize bound to the
\* one controller)
RECURSIVE dispatchScroll(_, _)
dispatchScroll(n, st) ==
    IF n = 0 THEN st ELSE dispatchScroll(n - 1, handleScroll(st))

RECURSIVE dispatchResize(_, _)
dispatchResize(n, st) ==
    IF n = 0 THEN st ELSE dispatchResize(n - 1, handleResize(st))

\* the user scrolls: window dispatches 'scroll' to the registered listeners
ScrollEvent(y) ==
    /\ y \in ScrollYs
    /\ scrollY' = y
    /\ LET n == Cardinality(windowListeners.scroll)
           st == dispatchScroll(n, << scrollTicking, rafScroll >>)
       IN /\ st[2] <= MaxRaf
          /\ scrollTicking' = st[1]
          /\ rafScroll' = st[2]
          /\ calls' = [calls EXCEPT
                         !.scroll = @ \/ n > 1 \/ (n = 1 /\ rafScroll > 0)]
    /\ UNCHANGED formVars
    /\ UNCHANGED << isInitialized, isDestroyed, activeAnimations,
                    typingController, particleContainer, elements, handlers,
                    resizeTicking, cycles, timers, rafResize, orientTimers,
                    pageVars,
                    now, hidden, viewport, dom, lastLog, lifecycle, inits,
                    passes >>

\* the window is resized or zoomed: the viewport changes and window
\* dispatches 'resize'
ResizeEvent(w, d) ==
    /\ viewport' = [ width |-> w, dpr2 |-> d ]
    /\ LET n == Cardinality(windowListeners.resize)
           st == dispatchResize(n, << resizeTicking, rafResize >>)
       IN /\ st[2] <= MaxRaf
          /\ resizeTicking' = st[1]
          /\ rafResize' = st[2]
          /\ calls' = [calls EXCEPT
                         !.resize = @ \/ n > 1 \/ (n = 1 /\ rafResize > 0)]
    /\ UNCHANGED formVars
    /\ UNCHANGED << isInitialized, isDestroyed, activeAnimations,
                    typingController, particleContainer, elements, handlers,
                    scrollTicking, cycles, timers, rafScroll, orientTimers,
                    pageVars,
                    now, hidden, scrollY, dom, lastLog, lifecycle, inits,
                    passes >>

\* the device is rotated: the page-level listener of lines 554-560 starts a
\* 100 ms timer
OrientationChange(w) ==
    /\ w \in LifecycleWidths
    /\ orientTimers < MaxOrientTimers
    /\ viewport' = [viewport EXCEPT !.width = w]
    /\ orientTimers' = orientTimers + 1
    /\ UNCHANGED formVars
    /\ UNCHANGED << ctlVars, cycles, timers, rafScroll, rafResize, pageVars,
                    now, hidden, scrollY, dom, logVars >>

\* the 100 ms timer fires: window.portfolioManager.handleResize()
OrientationTimer ==
    /\ orientTimers > 0
    /\ orientTimers' = orientTimers - 1
    /\ LET st == handleResize(<< resizeTicking, rafResize >>)
       IN /\ st[2] <= MaxRaf
          /\ resizeTicking' = st[1]
          /\ rafResize' = st[2]
          /\ calls' = [calls EXCEPT !.resize = @ \/ rafResize > 0]
    /\ UNCHANGED formVars
    /\ UNCHANGED << isInitialized, isDestroyed, activeAnimations,
                    typingController, particleContainer, elements, handlers,
                    scrollTicking, cycles, timers, rafScroll, pageVars,
                    envVars, lastLog, lifecycle, inits, passes >>

\* a resize pass that keeps the nodes of the container
innerHTMLKept(n) == n

\* particleContainer.innerHTML = '' (line 412): the nodes left of n
innerHTMLCleared(n) == 0

\* a frame is rendered: the pending animation-frame callbacks run
\* (lines 205-209 and 409-416)
Frame ==
    /\ LET scrollPass == rafScroll > 0
           resizePass == rafResize > 0 /\ particleContainer
           els1 == IF scrollPass THEN getElementCache(elements, "navbar")
                                 ELSE elements
           bgAnimation == getElement(els1, "bgAnimation")
           els2 == IF resizePass THEN getElementCache(els1, "bgAnimation")
                                 ELSE els1
       IN /\ navbarScrolled' = IF scrollPass THEN updateNavbar(elements)
                                              ELSE navbarScrolled
          /\ fadeVisible' = IF scrollPass THEN revealOnScroll ELSE fadeVisible
          /\ scrollTicking' = IF scrollPass THEN FALSE ELSE scrollTicking
          /\ resizeTicking' = IF rafResize > 0 THEN FALSE ELSE resizeTicking
          /\ particles' = IF resizePass
                            THEN innerHTMLCleared(particles)
                                   + ( IF bgAnimation
                                         THEN particleNodes(viewport)
                                         ELSE 0 )
                            ELSE particles
          /\ lastLog' = IF resizePass /\ bgAnimation
                          THEN << "Created particles",
                                  particleCountLogged(viewport) >>
                          ELSE lastLog
          /\ elements' = els2
    /\ passes' = [ scroll |-> rafScroll, resize |-> rafResize ]
    /\ calls' = [ scroll |-> FALSE, resize |-> FALSE ]
    /\ rafScroll' = 0
    /\ rafResize' = 0
    /\ UNCHANGED formVars
    /\ UNCHANGED << isInitialized, isDestroyed, activeAnimations,
                    typingController, particleContainer, handlers, cycles,
                    timers, orientTimers, typingHTML, bound, windowListeners,
                    envVars, lifecycle, inits >>

(***************************************************************************)
(* The contact form.  A field value is a sequence of characters.           *)
(***************************************************************************)
\* the characters String.prototype.trim removes and \s matches
WhiteSpace == {" ", "\t", "\n"}

RECURSIVE trimStart(_)
trimStart(s) ==
    IF s # << >> /\ Head(s) \in WhiteSpace THEN trimStart(Tail(s)) ELSE s

RECURSIVE trimEnd(_)
trimEnd(s) ==
    IF s # << >> /\ s[Len(s)] \in WhiteSpace
      THEN trimEnd(SubSeq(s, 1, Len(s) - 1))
      ELSE s

trim(s) == trimEnd(trimStart(s))

\* a pattern without the dot of the domain: /^[^\s@]+@[^\s@]+$/
emailRegexNoDot ==
    << [ class |-> "[^\\s@]", plus |-> TRUE ],
       [ class |-> "@",       plus |-> FALSE ],
       [ class |-> "[^\\s@]", plus |-> TRUE ] >>

\* /^[^\s@]+@[^\s@]+\.[^\s@]+$/ : one token per character class, in order
emailRegex ==
    << [ class |-> "[^\\s@]", plus |-> TRUE ],
       [ class |-> "@",       plus |-> FALSE ],
       [ class |-> "[^\\s@]", plus |-> TRUE ],
       [ class |-> "\\.",     plus |-> FALSE ],
       [ class |-> "[^\\s@]", plus |-> TRUE ] >>

inClass(class, ch) ==
    IF class = "[^\\s@]" THEN ch \notin WhiteSpace /\ ch # "@"
    ELSE IF class = "@" THEN ch = "@"
    ELSE ch = "."

\* the backtracking match of the tokens from pi on against s from si on,
\* anchored at the end of s
RECURSIVE regexMatch(_, _, _, _)
regexMatch(regex, pi, s, si) ==
    IF pi > Len(regex) THEN si > Len(s)
    ELSE IF si > Len(s) THEN FALSE
    ELSE /\ inClass(regex[pi].class, s[si])
         /\ \/ regexMatch(regex, pi + 1, s, si + 1)
            \/ regex[pi].plus /\ regexMatch(regex, pi, s, si + 1)

\* regex.test(s)
regexTest(regex, s) == regexMatch(regex, 1, s, 1)

\* validateForm(formData): the value returned and the text of the alert
validateForm(formData) ==
    LET name == trim(formData.name)
        email == trim(formData.email)
        message == trim(formData.message)
    IN  IF name = << >> \/ email = << >> \/ message = << >>
          THEN [ result |-> FALSE,
                 alert |-> "Mohon isi semua field yang diperlukan" ]
          ELSE IF ~regexTest(emailRegex, email)
                 THEN [ result |-> FALSE,
                        alert |-> "Format email tidak valid" ]
                 ELSE [ result |-> TRUE, alert |-> "none" ]

\* a direct call of validateForm on the data of the form
ValidateCall ==
    /\ isValid' = IF validateForm(form).result THEN "true" ELSE "false"
    /\ alertMsg' = IF validateForm(form).result THEN alertMsg
                                                 ELSE validateForm(form).alert
    /\ UNCHANGED << ctlVars, taskVars, pageVars, envVars, form, btn,
                    submissions, logVars >>

\* the label of the submit control in the page, and the form after reset()
OriginalLabel == "Kirim Pesan"
idleButton == [ text |-> OriginalLabel, disabled |-> FALSE, background |-> "" ]
emptyForm == [ name |-> << >>, email |-> << >>, message |-> << >> ]

\* the button states of lines 287-289 and 295-296
pendingButton ==
    [ text |-> "Mengirim...", disabled |-> TRUE,
      background |-> "linear-gradient(45deg, #888, #666)" ]
successButton(b) ==
    [ b EXCEPT !.text = "Terkirim!",
               !.background = "linear-gradient(45deg, #00ff88, #0088ff)" ]

\* one submit listener up to its await (lines 273-292), on
\* st = [btn, submissions, alertMsg, isValid]
submitHandler(st) ==
    LET originalText == st.btn.text
        v == validateForm(form)
    IN  IF ~v.result
          THEN [ st EXCEPT !.alertMsg = v.alert, !.isValid = "false" ]
          ELSE [ st EXCEPT
                   !.isValid = "true",
                   !.btn = pendingButton,
                   !.submissions =
                       Append(@, [ originalText |-> originalText,
                                   phase |-> "pending" ]) ]

\* the form dispatches 'submit' to the n listeners bound by initContactForm
RECURSIVE dispatchSubmit(_, _)
dispatchSubmit(n, st) ==
    IF n = 0 THEN st ELSE dispatchSubmit(n - 1, submitHandler(st))

\* the visitor edits the fields
UserInput(fd) ==
    /\ form' = fd
    /\ UNCHANGED << ctlVars, taskVars, pageVars, envVars, btn, submissions,
                    alertMsg, isValid, logVars >>

\* the visitor submits the form with the submit control (a disabled control
\* submits nothing)
Submit ==
    /\ bound.submit > 0
    /\ ~btn.disabled
    /\ Len(submissions) + bound.submit <= MaxSubmissions
    /\ LET st == dispatchSubmit(bound.submit,
                     [ btn |-> btn, submissions |-> submissions,
                       alertMsg |-> alertMsg, isValid |-> isValid ])
       IN /\ btn' = st.btn
          /\ submissions' = st.submissions
          /\ alertMsg' = st.alertMsg
          /\ isValid' = st.isValid
    /\ UNCHANGED << ctlVars, taskVars, pageVars, envVars, form, logVars >>

\* the position of the last handler of q that waits for its 1500 ms timer
lastPending(q) ==
    LET ps == { n \in DOMAIN q : q[n].phase = "pending" }
    IN  IF ps = {} THEN 0 ELSE CHOOSE n \in ps : \A m \in ps : m <= n

\* a submit event reaches the form whatever the state of the control (the
\* handler does not look at it): the control is enabled, or the form is
\* submitted by other means (form.requestSubmit(), another submit control)
\* while an earlier submission waits.  The 1500 ms timers set now expire
\* after the 1500 ms timers that wait, and before or after a 2000 ms timer
\* that waits, depending on when that one was set: they take a position p
\* after the last waiting 1500 ms timer.
SubmitEvent(p) ==
    /\ bound.submit > 0
    /\ Len(submissions) + bound.submit <= MaxSubmissions
    /\ p \in (lastPending(submissions) + 1) .. (Len(submissions) + 1)
    /\ LET st == dispatchSubmit(bound.submit,
                     [ btn |-> btn, submissions |-> << >>,
                       alertMsg |-> alertMsg, isValid |-> isValid ])
       IN /\ btn' = st.btn
          /\ submissions' = SubSeq(submissions, 1, p - 1)
                               \o st.submissions
                               \o SubSeq(submissions, p, Len(submissions))
          /\ alertMsg' = st.alertMsg
          /\ isValid' = st.isValid
    /\ UNCHANGED << ctlVars, taskVars, pageVars, envVars, form, logVars >>

\* submissions holds the handlers that wait for a timer, in the order their
\* timers expire: a submit is only delivered while the control is enabled,
\* which is at the start or after a 2000 ms timer of an earlier dispatch has
\* fired, when the other timers of that dispatch are due as well; so a timer
\* set now expires after every timer that is still waiting.

\* the 1500 ms timer of the first waiting handler fires (lines 292-304)
SubmitDelayTimer ==
    /\ submissions # << >>
    /\ Head(submissions).phase = "pending"
    /\ btn' = successButton(btn)
    /\ submissions' = Append(Tail(submissions),
                             [ Head(submissions) EXCEPT !.phase = "success" ])
    /\ UNCHANGED << ctlVars, taskVars, pageVars, envVars, form, alertMsg,
                    isValid, logVars >>

\* the 2000 ms timer of the first waiting handler fires (lines 299-304)
RevertTimer ==
    /\ submissions # << >>
    /\ Head(submissions).phase = "success"
    /\ btn' = [ text |-> Head(submissions).originalText, disabled |-> FALSE,
                background |-> "" ]
    /\ form' = emptyForm
    /\ submissions' = Tail(submissions)
    /\ UNCHANGED << ctlVars, taskVars, pageVars, envVars, alertMsg, isValid,
                    logVars >>

(***************************************************************************)
(* init() and destroy().                                                   *)
(***************************************************************************)
\* window.addEventListener / window.removeEventListener on one event type
addEventListener(listeners, handler) == listeners \cup {handler}
\* a removal that names another function object than the registered one
removeEventListenerMiss(listeners, handler) == listeners
removeEventListener(listeners, handler) == listeners \ {handler}

\* the early return of lines 444-447
alreadyInitialized ==
    /\ lastLog' = << "Portfolio already initialized", 0 >>
    /\ UNCHANGED formVars
    /\ UNCHANGED << ctlVars, taskVars, pageVars, envVars, lifecycle, inits,
                    calls, passes >>

\* the sequence of lines 449-485; every init() call that runs it binds
\* handler functions of its own (bind() and the arrow functions are new
\* function objects), named by the number of the call.  Date.now() returns
\* the value t: the one of the previous call when both calls fall into the
\* same millisecond, a later one otherwise (later by one: only the equality
\* of the values matters)
initSequenceAt(t) ==
    /\ now' = t
    /\ LET n == inits + 1
           \* createParticles()
           bgAnimation == getElement(elements, "bgAnimation")
           els1 == getElementCache(elements, "bgAnimation")
           \* initTypingAnimation()
           typingElement == getElement(els1, "typingText")
           els2 == getElementCache(els1, "typingText")
           animationId == t
           \* initContactForm()
           contactForm == getElement(els2, "contactForm")
           els3 == getElementCache(els2, "contactForm")
           \* updateNavbar()
           els4 == getElementCache(els3, "navbar")
       IN /\ particles' = IF bgAnimation
                            THEN particles + particleNodes(viewport)
                            ELSE particles
          /\ particleContainer' = (particleContainer \/ bgAnimation)
          /\ IF typingElement
               THEN /\ activeAnimations' = activeAnimations \cup {animationId}
                    /\ cycles' = Append(cycles, newCycle(animationId))
                    /\ timers' = Append(timers, Len(cycles) + 1)
               ELSE UNCHANGED << activeAnimations, cycles, timers >>
          /\ bound' = [ click  |-> bound.click + 1,
                        submit |-> IF contactForm THEN bound.submit + 1
                                                  ELSE bound.submit,
                        hover  |-> bound.hover + 1 ]
          /\ handlers' = [ scroll |-> n, resize |-> n ]
          /\ windowListeners' =
                 [ scroll |-> addEventListener(windowListeners.scroll, n),
                   resize |-> addEventListener(windowListeners.resize, n) ]
          /\ fadeVisible' = revealOnScroll
          /\ navbarScrolled' = updateNavbar(els3)
          /\ elements' = els4
    /\ isInitialized' = TRUE
    /\ inits' = inits + 1
    /\ lifecycle' = "init"
    /\ lastLog' = << "Portfolio initialized successfully", 0 >>
    /\ UNCHANGED formVars
    /\ UNCHANGED << isDestroyed, typingController, scrollTicking,
                    resizeTicking, rafScroll, rafResize, orientTimers,
                    typingHTML, hidden, scrollY, viewport, dom, calls,
                    passes >>

initSequence ==
    /\ inits < MaxInits
    /\ \E t \in {now, now + 1} : initSequenceAt(t)

\* an init() without the isInitialized check
initUnguarded == initSequence

init == IF isInitialized THEN alreadyInitialized ELSE initSequence

destroy ==
    /\ isDestroyed' = TRUE
    /\ IF typingController # NoController
         THEN /\ cycles' = [cycles EXCEPT ![typingController] =
                                              abort(cycles[typingController])]
              /\ timers' = IF cycles'[typingController].phase = "dead"
                             THEN removeTimer(timers, typingController)
                             ELSE timers
         ELSE UNCHANGED << cycles, timers >>
    /\ typingController' = NoController
    /\ activeAnimations' = {}
    /\ windowListeners' =
           [ scroll |-> IF handlers.scroll # 0
                          THEN removeEventListener(windowListeners.scroll,
                                                   handlers.scroll)
                          ELSE windowListeners.scroll,
             resize |-> IF handlers.resize # 0
                          THEN removeEventListener(windowListeners.resize,
                                                   handlers.resize)
                          ELSE windowListeners.resize ]
    /\ elements' = {}
    /\ isInitialized' = FALSE
    /\ lifecycle' = "destroy"
    /\ lastLog' = << "Portfolio destroyed", 0 >>
    /\ UNCHANGED formVars
    /\ UNCHANGED << particleContainer, handlers, scrollTicking, resizeTicking,
                    rafScroll, rafResize, orientTimers, typingHTML,
                    navbarScrolled, fadeVisible, particles, bound, envVars,
                    inits, calls, passes >>

(***************************************************************************)
(* Page-level listeners.                                                   *)
(***************************************************************************)
\* the tab is hidden or shown (lines 541-551)
VisibilityChange ==
    /\ hidden' = ~hidden
    /\ isDestroyed' = hidden'
    /\ UNCHANGED formVars
    /\ UNCHANGED << isInitialized, activeAnimations, typingController,
                    particleContainer, elements, handlers, scrollTicking,
                    resizeTicking, taskVars, pageVars, now, scrollY, viewport,
                    dom, logVars >>

(***************************************************************************)
(* Exceptions.  A platform call inside an entry point throws.  What the    *)
(* controller does not catch the browser reports on the console as         *)
(* "Uncaught" (an exception that leaves a listener or a callback) or       *)
(* "Uncaught (in promise)" (the rejected promise of an async function      *)
(* nobody awaits).                                                         *)
(***************************************************************************)
\* the calls of init() that change the state of the model, in the order of
\* lines 456-482; "bind" is lines 474-475
InitSteps ==
    << "createParticles", "initTypingAnimation", "initSmoothScrolling",
       "initContactForm", "initCardEffects", "bind", "addEventListener",
       "revealOnScroll", "updateNavbar" >>

stepNo(step) == CHOOSE n \in DOMAIN InitSteps : InitSteps[n] = step

\* the steps in which a platform call may throw
ThrowingSteps ==
    { InitSteps[n] : n \in DOMAIN InitSteps } \ {"bind"}

\* console.error of line 488 prints the error, which names the call that
\* threw: the model logs the number of the step

\* initTypingAnimation is an async function that init() does not await: an
\* exception in its body rejects the promise it returns and init() goes on
isAsync(step) == step = "initTypingAnimation"

\* an init() that undoes the completed steps when a step throws
completesNone(s, step) == FALSE

\* step has completed in an init() whose step s throws at its first
\* platform call
completes(s, step) ==
    IF isAsync(s) THEN step # s ELSE stepNo(step) < stepNo(s)

\* init() that passes line 447, in which step s throws
initThrowsAt(t, s) ==
    /\ now' = t
    /\ LET n == inits + 1
           bgAnimation == completes(s, "createParticles")
                             /\ getElement(elements, "bgAnimation")
           els1 == IF completes(s, "createParticles")
                     THEN getElementCache(elements, "bgAnimation")
                     ELSE elements
           typingElement == completes(s, "initTypingAnimation")
                               /\ getElement(els1, "typingText")
           els2 == IF completes(s, "initTypingAnimation")
                     THEN getElementCache(els1, "typingText")
                     ELSE els1
           animationId == t
           contactForm == completes(s, "initContactForm")
                             /\ getElement(els2, "contactForm")
           els3 == IF completes(s, "initContactForm")
                     THEN getElementCache(els2, "contactForm")
                     ELSE els2
           els4 == IF completes(s, "updateNavbar")
                     THEN getElementCache(els3, "navbar")
                     ELSE els3
       IN /\ particles' = IF bgAnimation
                            THEN particles + particleNodes(viewport)
                            ELSE particles
          /\ particleContainer' = (particleContainer \/ bgAnimation)
          /\ IF typingElement
               THEN /\ activeAnimations' = activeAnimations \cup {animationId}
                    /\ cycles' = Append(cycles, newCycle(animationId))
                    /\ timers' = Append(timers, Len(cycles) + 1)
               ELSE UNCHANGED << activeAnimations, cycles, timers >>
          /\ bound' =
                [ click  |-> IF completes(s, "initSmoothScrolling")
                               THEN bound.click + 1 ELSE bound.click,
                  submit |-> IF contactForm THEN bound.submit + 1
                                            ELSE bound.submit,
                  hover  |-> IF completes(s, "initCardEffects")
                               THEN bound.hover + 1 ELSE bound.hover ]
          /\ handlers' = IF completes(s, "bind")
                            THEN [ scroll |-> n, resize |-> n ]
                            ELSE handlers
          /\ windowListeners' =
                IF completes(s, "addEventListener")
                  THEN [ scroll |-> addEventListener(windowListeners.scroll, n),
                         resize |-> addEventListener(windowListeners.resize, n) ]
                  ELSE windowListeners
          /\ fadeVisible' = IF completes(s, "revealOnScroll")
                              THEN revealOnScroll ELSE fadeVisible
          /\ navbarScrolled' = IF completes(s, "updateNavbar")
                                 THEN updateNavbar(els3) ELSE navbarScrolled
          /\ elements' = els4
    \* line 484 is reached when no step has thrown; else the catch of
    \* lines 487-489
    /\ isInitialized' = isAsync(s)
    /\ lastLog' = IF isAsync(s)
                    THEN << "Uncaught (in promise)", 0 >>
                    ELSE << "Failed to initialize portfolio", stepNo(s) >>
    /\ inits' = inits + 1
    /\ lifecycle' = "init"
    /\ UNCHANGED formVars
    /\ UNCHANGED << isDestroyed, typingController, scrollTicking,
                    resizeTicking, rafScroll, rafResize, orientTimers,
                    typingHTML, hidden, scrollY, viewport, dom, calls,
                    passes >>

initThrows(s) ==
    /\ s \in ThrowingSteps
    /\ ~isInitialized
    /\ inits < MaxInits
    /\ \E t \in {now, now + 1} : initThrowsAt(t, s)

\* destroy() in which removeEventListener (line 511) throws: destroy() has
\* no try, the exception leaves it
destroyThrows ==
    /\ handlers.scroll # 0
    /\ isDestroyed' = TRUE
    /\ IF typingController # NoController
         THEN /\ cycles' = [cycles EXCEPT ![typingController] =
                                              abort(cycles[typingController])]
              /\ timers' = IF cycles'[typingController].phase = "dead"
                             THEN removeTimer(timers, typingController)
                             ELSE timers
         ELSE UNCHANGED << cycles, timers >>
    /\ typingController' = NoController
    /\ activeAnimations' = {}
    /\ lifecycle' = "destroy"
    /\ lastLog' = << "Uncaught", 0 >>
    /\ UNCHANGED formVars
    /\ UNCHANGED << isInitialized, particleContainer, elements, handlers,
                    scrollTicking, resizeTicking, rafScroll, rafResize,
                    orientTimers, pageVars, envVars, inits, calls, passes >>

\* a frame in which the callback of handleScroll is the only one pending and
\* updateNavbar() throws (line 206): line 208 is not reached
FrameThrows ==
    /\ rafScroll > 0
    /\ rafResize = 0
    /\ rafScroll' = 0
    /\ passes' = [ scroll |-> rafScroll, resize |-> 0 ]
    /\ calls' = [ scroll |-> FALSE, resize |-> FALSE ]
    /\ lastLog' = << "Uncaught", 0 >>
    /\ UNCHANGED formVars
    /\ UNCHANGED << ctlVars, cycles, timers, rafResize, orientTimers,
                    pageVars, envVars, lifecycle, inits >>

\* a submit in which validateForm throws (a field value without trim(),
\* line 326): the call of line 282 is outside the try of the handler, and
\* the promise of the async handler is rejected
SubmitThrows ==
    /\ bound.submit > 0
    /\ ~btn.disabled
    /\ lastLog' = << "Uncaught (in promise)", 0 >>
    /\ UNCHANGED formVars
    /\ UNCHANGED << ctlVars, taskVars, pageVars, envVars, lifecycle, inits,
                    calls, passes >>

(***************************************************************************)
(* The state after  new PortfolioManager()  on a loaded page.              *)
(***************************************************************************)
Constructed ==
    /\ isInitialized = FALSE
    /\ isDestroyed = FALSE
    /\ activeAnimations = {}
    /\ typingController = NoController
    /\ particleContainer = FALSE
    /\ elements = {}
    /\ handlers = [ scroll |-> 0, resize |-> 0 ]
    /\ scrollTicking = FALSE
    /\ resizeTicking = FALSE
    /\ cycles = << >>
    /\ timers = << >>
    /\ rafScroll = 0
    /\ rafResize = 0
    /\ orientTimers = 0
    /\ typingHTML = << >>
    /\ navbarScrolled = FALSE
    /\ fadeVisible = FALSE
    /\ particles = 0
    /\ bound = [ click |-> 0, submit |-> 0, hover |-> 0 ]
    /\ windowListeners = [ scroll |-> {}, resize |-> {} ]
    /\ now = 0
    /\ hidden = FALSE
    /\ scrollY = 50
    /\ btn = idleButton
    /\ submissions = << >>
    /\ alertMsg = "none"
    /\ isValid = "none"
    /\ lastLog = << "", 0 >>
    /\ lifecycle = "new"
    /\ inits = 0
    /\ calls = [ scroll |-> FALSE, resize |-> FALSE ]
    /\ passes = [ scroll |-> 0, resize |-> 0 ]

Init ==
    /\ Constructed
    /\ viewport = [ width |-> 1023, dpr2 |-> 2 ]
    /\ dom = ElementIds
    /\ form = emptyForm

(***************************************************************************)
(* Spec: the lifecycle with the typing cycle (its timers, visibility).     *)
(***************************************************************************)
Next ==
    \/ init
    \/ destroy
    \/ VisibilityChange
    \/ \E k \in 1..MaxInits : InitialDelayTimer(k)
    \/ \E k \in 1..MaxInits : CharTimer(k)
    \/ \E k \in 1..MaxInits : PauseTimer(k)

Spec == Init /\ [][Next]_vars

(***************************************************************************)
(* SpecScroll: the lifecycle with the scroll, resize and orientation       *)
(* events and the rendered frames.                                         *)
(***************************************************************************)
NextScroll ==
    \/ init
    \/ destroy
    \/ VisibilityChange
    \/ \E y \in ScrollYs : ScrollEvent(y)
    \/ \E w \in LifecycleWidths : ResizeEvent(w, viewport.dpr2)
    \/ \E w \in LifecycleWidths : OrientationChange(w)
    \/ OrientationTimer
    \/ Frame

SpecScroll == Init /\ [][NextScroll]_vars

(***************************************************************************)
(* SpecParticles: the lifecycle on every viewport, with resizes.           *)
(***************************************************************************)
InitParticles ==
    /\ Constructed
    /\ viewport \in [ width : Widths, dpr2 : Dprs2 ]
    /\ dom = ElementIds
    /\ form = emptyForm

NextParticles ==
    \/ init
    \/ destroy
    \/ \E w \in Widths, d \in Dprs2 : ResizeEvent(w, d)
    \/ Frame

SpecParticles == InitParticles /\ [][NextParticles]_vars

(***************************************************************************)
(* SpecValidate: validateForm applied to every form data of the sets       *)
(* below.                                                                  *)
(***************************************************************************)
EmailChars == {"a", "@", ".", " "}
Emails == UNION { [1..n -> EmailChars] : n \in 0..MaxEmailLen }
FieldValues == { << >>, << " " >>, << " ", "a", " " >> }

InitValidate ==
    /\ Constructed
    /\ viewport = [ width |-> 1023, dpr2 |-> 2 ]
    /\ dom = ElementIds
    /\ form \in [ name : FieldValues, email : Emails, message : FieldValues ]

NextValidate == ValidateCall

SpecValidate == InitValidate /\ [][NextValidate]_vars

(***************************************************************************)
(* SpecForm: the lifecycle with a visitor who fills in and submits the     *)
(* contact form.                                                           *)
(***************************************************************************)
FormInputs ==
    { [ name |-> << "A" >>, email |-> << "a", "@", "b", ".", "c", "o" >>,
        message |-> << "h", "i" >> ],
      [ name |-> << "A" >>, email |-> << "b", "o", "b", "@" >>,
        message |-> << "h", "i" >> ],
      [ name |-> << " " >>, email |-> << "a", "@", "b", ".", "c", "o" >>,
        message |-> << "h", "i" >> ] }

NextForm ==
    \/ init
    \/ destroy
    \/ \E fd \in FormInputs : UserInput(fd)
    \/ Submit
    \/ SubmitDelayTimer
    \/ RevertTimer

SpecForm == Init /\ [][NextForm]_vars

(***************************************************************************)
(* SpecVisibility: one init() and no destroy(): the tab is hidden and      *)
(* shown while the typing cycle runs and the visitor scrolls.              *)
(***************************************************************************)
NextVisibility ==
    \/ init
    \/ VisibilityChange
    \/ \E k \in 1..MaxInits : InitialDelayTimer(k)
    \/ \E k \in 1..MaxInits : CharTimer(k)
    \/ \E k \in 1..MaxInits : PauseTimer(k)
    \/ \E y \in ScrollYs : ScrollEvent(y)
    \/ Frame

SpecVisibility == Init /\ [][NextVisibility]_vars

\* the same steps, where the page calls init() once the document is loaded
\* (lines 528-531) and every timer that is pending fires
SpecVisibilityFair ==
    /\ Init
    /\ [][NextVisibility]_vars
    /\ WF_vars(init)
    /\ \A k \in 1..MaxInits :
          /\ WF_vars(InitialDelayTimer(k))
          /\ WF_vars(CharTimer(k))
          /\ WF_vars(PauseTimer(k))

(***************************************************************************)
(* SpecFaults: the lifecycle and the scroll handling, with platform calls  *)
(* that throw.                                                             *)
(***************************************************************************)
NextFaults ==
    \/ init
    \/ destroy
    \/ \E s \in ThrowingSteps : initThrows(s)
    \/ destroyThrows
    \/ \E y \in ScrollYs : ScrollEvent(y)
    \/ Frame
    \/ FrameThrows
    \/ SubmitThrows

SpecFaults == Init /\ [][NextFaults]_vars

(***************************************************************************)
(* SpecMissing: the lifecycle on a page that lacks any of the elements     *)
(* the controller looks up.                                                *)
(***************************************************************************)
InitMissing ==
    /\ Constructed
    /\ viewport = [ width |-> 1023, dpr2 |-> 2 ]
    /\ dom \in SUBSET ElementIds
    /\ form = emptyForm

\* a narrow and a wide viewport, with different particle counts
MissingWidths == {1023, 1921}

NextMissing ==
    \/ init
    \/ destroy
    \/ \E y \in ScrollYs : ScrollEvent(y)
    \/ \E w \in MissingWidths : ResizeEvent(w, viewport.dpr2)
    \/ Frame

SpecMissing == InitMissing /\ [][NextMissing]_vars

(***************************************************************************)
(* SpecReinit: init() and destroy() with the typing timers and the scroll  *)
(* events, the tab staying visible.                                        *)
(***************************************************************************)
NextReinit ==
    \/ init
    \/ destroy
    \/ \E k \in 1..MaxInits : InitialDelayTimer(k)
    \/ \E k \in 1..MaxInits : CharTimer(k)
    \/ \E k \in 1..MaxInits : PauseTimer(k)
    \/ \E y \in ScrollYs : ScrollEvent(y)
    \/ Frame

SpecReinit == Init /\ [][NextReinit]_vars

(***************************************************************************)
(* SpecOverlap: one init(), and submit events that may reach the form      *)
(* while an earlier submission is in its pending or success phase.         *)
(***************************************************************************)
NextOverlap ==
    \/ init
    \/ \E fd \in FormInputs : UserInput(fd)
    \/ \E p \in 1..(MaxSubmissions + 1) : SubmitEvent(p)
    \/ SubmitDelayTimer
    \/ RevertTimer

SpecOverlap == Init /\ [][NextOverlap]_vars

(***************************************************************************)
(* Properties.                                                             *)
(***************************************************************************)
NoListeners == [ scroll |-> {}, resize |-> {} ]

\* C1: after init() (the first one, or one that follows a destroy()) exactly
\* one scroll listener and one resize listener are registered on window, the
\* ones stored in handlers; after destroy() none is registered; listeners
\* never accumulate.
C1_ListenersDoNotAccumulate ==
    /\ Cardinality(windowListeners.scroll) <= 1
    /\ Cardinality(windowListeners.resize) <= 1
    /\ lifecycle = "init" =>
          /\ handlers.scroll # 0 /\ handlers.resize # 0
          /\ windowListeners = [ scroll |-> {handlers.scroll},
                                 resize |-> {handlers.resize} ]
    /\ lifecycle = "destroy" => windowListeners = NoListeners

\* an init() that followed a destroy() has run
C1_Witness ==
    /\ lifecycle = "init"
    /\ inits >= 2
    /\ windowListeners = [ scroll |-> {inits}, resize |-> {inits} ]

\* the typeWriter loops in flight, and the cycles whose runCycle chain has
\* started and will go on when its timer fires
Revealing == { k \in DOMAIN cycles : cycles[k].phase = "typing" }
RunningChains ==
    { k \in DOMAIN cycles :
        \/ cycles[k].phase = "typing"
        \/ /\ cycles[k].phase = "pause"
           /\ cycles[k].animationId \in activeAnimations }

\* C2: at most one typing cycle is live and at most one typeWriter loop is in
\* flight, in every reachable state.
C2_AtMostOneReveal ==
    /\ Cardinality(Revealing) <= 1
    /\ Cardinality(RunningChains) <= 1

\* what the controller shows on the page
page == << typingHTML, navbarScrolled, fadeVisible, particles >>

\* C3: between a destroy() and the next init() no step changes the page.
C3_NoMutationAfterDestroy ==
    [][ (lifecycle = "destroy" /\ lifecycle' = "destroy") => page' = page ]_vars

\* C4: when the AbortController of a typeWriter call that waits between two
\* characters is aborted, the call ends at once: no character is appended by
\* the step, no callback of the cycle remains, typeWriter has returned false;
\* and a cycle that has ended never resumes, every later change of the typing
\* element being the step of another, live, typeWriter call.
C4_CancelStopsReveal ==
    [][ \A k \in DOMAIN cycles :
          /\ ( /\ cycles[k].phase = "typing"
               /\ ~cycles[k].aborted
               /\ cycles'[k].aborted )
             => /\ cycles'[k].phase = "dead"
                /\ cycles'[k].result = "false@145"
                /\ typingHTML' = typingHTML
          /\ cycles[k].phase = "dead"
             => /\ cycles'[k].phase = "dead"
                /\ cycles'[k].result = cycles[k].result
                /\ ( typingHTML' # typingHTML =>
                       \E j \in DOMAIN cycles :
                          j # k /\ cycles'[j].phase = "typing" )
      ]_vars

\* a reveal was cancelled between two characters of a text
C4_Witness ==
    \E k \in DOMAIN cycles :
       /\ cycles[k].phase = "dead"
       /\ cycles[k].aborted
       /\ cycles[k].result = "false@145"
       /\ typingHTML # << >>
       /\ Len(typingHTML) < TextLen

\* C5: whatever the number of handleScroll() / handleResize() calls between
\* two frames, at most one animation-frame callback of each is pending, and a
\* frame runs at most one update pass of each.
C5_OnePassPerFrame ==
    /\ rafScroll <= 1
    /\ rafResize <= 1
    /\ passes.scroll <= 1
    /\ passes.resize <= 1
    /\ scrollTicking <=> rafScroll = 1
    /\ resizeTicking <=> rafResize = 1

\* both handlers were called again while their frame request was pending
C5_Witness ==
    /\ calls.scroll
    /\ calls.resize
    /\ rafScroll = 1
    /\ rafResize = 1

\* C6: init() called while isInitialized is true changes nothing of the
\* controller, of its pending callbacks or of the page.
C6_InitIdempotent ==
    [][ (isInitialized /\ init)
          => UNCHANGED << ctlVars, taskVars, pageVars >> ]_vars

\* init() has been called on an initialized controller
C6_Witness ==
    /\ isInitialized
    /\ lastLog = << "Portfolio already initialized", 0 >>

\* the state destroy() leaves
Destroyed ==
    /\ isDestroyed
    /\ ~isInitialized
    /\ typingController = NoController
    /\ activeAnimations = {}
    /\ handlers.scroll \notin windowListeners.scroll
    /\ handlers.resize \notin windowListeners.resize
    /\ elements = {}
    /\ Revealing = {}

\* C7: destroy() leaves, from any state, the flags set, the in-flight typing
\* operation aborted, typingController null, activeAnimations empty, the
\* stored handlers unregistered and the cache empty; a second destroy()
\* changes nothing.
C7_DestroyPostcondition ==
    [][ destroy =>
          /\ Destroyed'
          /\ ( Destroyed => UNCHANGED << ctlVars, taskVars, pageVars >> )
      ]_vars

\* the count the claim gives for a viewport (dpr2 is the ratio in halves)
C8_Count(vp) ==
    IF vp.dpr2 < 4 /\ vp.width < 1024 THEN 25
    ELSE IF vp.width > 1920 THEN 75
    ELSE 50

\* C8: every createParticles call (the one of init(), the one of a resize
\* pass) appends exactly the count of the viewport: 25 on a small low-density
\* viewport, 75 on a wide one, 50 otherwise, always within
\* [minCount, maxCount].
C8_ParticleCount ==
    [][ /\ C8_Count(viewport) \in
              config.particles.minCount .. config.particles.maxCount
        /\ inits' = inits + 1
              => particles' = particles + C8_Count(viewport)
        /\ (rafResize > 0 /\ rafResize' = 0 /\ particleContainer)
              => /\ particles' = C8_Count(viewport)
                 /\ lastLog' = << "Created particles", C8_Count(viewport) >>
      ]_vars

\* a resize pass has created the particles of a wide viewport
C8_Witness ==
    /\ viewport.width > 1920
    /\ particles = 75
    /\ lastLog = << "Created particles", 75 >>

\* the value has a character that is not white space
C9_NonEmpty(s) == \E p \in DOMAIN s : s[p] \notin WhiteSpace

\* the value without the white space around it
C9_Trimmed(s) ==
    LET text == { p \in DOMAIN s : s[p] \notin WhiteSpace }
        first == CHOOSE p \in text : \A q \in text : p <= q
        last == CHOOSE p \in text : \A q \in text : q <= p
    IN  IF text = {} THEN << >> ELSE SubSeq(s, first, last)

\* local@domain.tld: no white space, one '@' after a non-empty local part,
\* then a non-empty domain part, a dot and a non-empty last part
C9_WellFormed(e) ==
    /\ \A p \in DOMAIN e : e[p] \notin WhiteSpace
    /\ Cardinality({ p \in DOMAIN e : e[p] = "@" }) = 1
    /\ LET at == CHOOSE p \in DOMAIN e : e[p] = "@"
       IN  /\ at > 1
           /\ \E dot \in (at + 2) .. (Len(e) - 1) : e[dot] = "."

C9_Accepts(fd) ==
    /\ C9_NonEmpty(fd.name)
    /\ C9_NonEmpty(fd.email)
    /\ C9_NonEmpty(fd.message)
    /\ C9_WellFormed(C9_Trimmed(fd.email))

C9_Example(email) ==
    [ name |-> << "A" >>, email |-> email, message |-> << "h", "i" >> ]

\* C9: validateForm returns true exactly for the form data whose three
\* fields are non-empty after trimming and whose trimmed email has the form
\* local@domain.tld; it rejects "bob@" and "bob.com" and accepts
\* name "A", email "a@b.co", message "hi".
C9_ValidateForm ==
    /\ isValid # "none" => (isValid = "true" <=> C9_Accepts(form))
    /\ ~validateForm(C9_Example(<< "b", "o", "b", "@" >>)).result
    /\ ~validateForm(C9_Example(<< "b", "o", "b", ".", "c", "o", "m" >>)).result
    /\ validateForm(C9_Example(<< "a", "@", "b", ".", "c", "o" >>)).result
    /\ ~validateForm([ C9_Example(<< "a", "@", "b", ".", "c", "o" >>)
                         EXCEPT !.name = << >> ]).result
    /\ ~validateForm([ C9_Example(<< "a", "@", "b", ".", "c", "o" >>)
                         EXCEPT !.message = << " " >> ]).result

\* validateForm has accepted a form whose fields carry white space around
\* their text
C9_Witness ==
    /\ isValid = "true"
    /\ form.name = << " ", "a", " " >>
    /\ form.email = << " ", "a", "@", "a", ".", "a" >>

\* C10: a valid submission shows the pending label on the disabled control,
\* then the success label, then the original label on the enabled control
\* with the fields reset; an invalid one changes neither the control nor the
\* timers.
C10_SubmitSequence ==
    [][ /\ (Submit /\ validateForm(form).result)
              => btn' = pendingButton
        /\ SubmitDelayTimer
              => btn'.text = "Terkirim!" /\ btn'.disabled
        /\ RevertTimer
              => btn' = idleButton /\ form' = emptyForm
        /\ (Submit /\ ~validateForm(form).result)
              => UNCHANGED << btn, submissions >>
      ]_vars

\* C11: with no destroy(), hiding and showing the tab pauses and resumes:
\* while hidden no character is appended and no scroll pass is scheduled,
\* the window listeners stay registered, and once the tab is visible a scroll
\* event schedules a pass and the typing cycle started by init() still has
\* a callback pending, so that it goes on revealing.
C11_PauseResume ==
    [][ /\ hidden => typingHTML' = typingHTML /\ rafScroll' <= rafScroll
        /\ lifecycle = "init"
              => /\ windowListeners' = windowListeners
                 /\ windowListeners.scroll # {}
                 /\ windowListeners.resize # {}
        /\ (lifecycle = "init" /\ ~hidden /\ \E y \in ScrollYs : ScrollEvent(y))
              => rafScroll' = 1
        /\ (~hidden' /\ cycles' # << >>)
              => \E k \in DOMAIN cycles' : cycles'[k].phase # "dead"
      ]_vars

\* the typing element shows the whole of texts[j]
Revealed(j) ==
    /\ typingHTML = TextAt(j)
    /\ \E k \in DOMAIN cycles :
          cycles[k].phase = "typing" /\ cycles[k].currentIndex = j

\* C12: with no destroy() and no abort, the cycle reveals the texts in
\* rotation order, one character per timer, moves to the next index (modulo
\* the number of texts) only when a text is fully revealed, starts the next
\* text only from the pause, and goes on forever: every text is revealed
\* again and again.
C12_TypingRotation ==
    /\ [][ \A k \in DOMAIN cycles :
            /\ ( cycles'[k].phase # "dead"
                 /\ cycles'[k].currentIndex # cycles[k].currentIndex )
               => /\ Revealed(cycles[k].currentIndex)
                  /\ cycles'[k].phase = "pause"
                  /\ cycles'[k].currentIndex =
                         (cycles[k].currentIndex + 1) % Len(texts)
            /\ ( cycles[k].phase = "typing" /\ cycles'[k].phase = "typing"
                 /\ cycles'[k] # cycles[k] )
               => /\ cycles'[k].i = cycles[k].i + 1
                  /\ typingHTML' =
                         SubSeq(TextAt(cycles[k].currentIndex), 1,
                                cycles'[k].i + 1)
            /\ ( cycles[k].phase # "typing" /\ cycles'[k].phase = "typing" )
               => /\ cycles[k].phase \in {"initialDelay", "pause"}
                  /\ typingHTML' =
                         SubSeq(TextAt(cycles[k].currentIndex), 1, 1)
          ]_vars
    /\ \A j \in 0..(Len(texts) - 1) : []<>Revealed(j)

\* C13: no exception leaves an entry point of the controller (the browser
\* never reports one as uncaught), and the controller stays usable after an
\* exception: the scroll throttle is not left set without a frame request,
\* and init() never returns before line 447 on a destroyed controller.
C13_NoExceptionEscapes ==
    /\ lastLog[1] \notin {"Uncaught", "Uncaught (in promise)"}
    /\ scrollTicking => rafScroll > 0
    /\ lifecycle = "destroy" => ~isInitialized

\* C14: an init() on a page that lacks an element skips the step that needs
\* it (no particle and no particle container without #bgAnimation; no cycle
\* id and no timer without #typingText; no navbar toggle without #navbar, in
\* init() and in a frame; no submit listener without #contactForm), runs
\* the other steps and ends with isInitialized true; the cache never holds
\* an element the page lacks.
C14_MissingElementSkipped ==
    [][ /\ inits' = inits + 1
              => /\ "bgAnimation" \notin dom
                       => /\ particles' = particles
                          /\ ~particleContainer /\ ~particleContainer'
                 /\ "typingText" \notin dom
                       => UNCHANGED << activeAnimations, cycles, timers >>
                 /\ "contactForm" \notin dom
                       => bound'.submit = bound.submit
                 /\ isInitialized'
                 /\ lastLog' = << "Portfolio initialized successfully", 0 >>
                 /\ bound'.click = bound.click + 1
                 /\ bound'.hover = bound.hover + 1
                 /\ windowListeners'.scroll = {handlers'.scroll}
                 /\ windowListeners'.resize = {handlers'.resize}
                 /\ fadeVisible' = revealOnScroll
        /\ "navbar" \notin dom => navbarScrolled' = navbarScrolled
        /\ elements' \subseteq dom
      ]_vars

\* init() has run on a page that has none of the four elements
C14_Witness ==
    /\ dom = {}
    /\ isInitialized
    /\ lastLog = << "Portfolio initialized successfully", 0 >>
    /\ particles = 0
    /\ ~particleContainer
    /\ cycles = << >>
    /\ bound.submit = 0
    /\ elements = {}

\* C15: a resize pass (the animation-frame callback of handleResize)
\* replaces the particles: the container then holds the count of the
\* current viewport, whatever it held before; without a particle container
\* the pass changes nothing.
C15_ResizeRecreates ==
    [][ (rafResize > 0 /\ rafResize' = 0)
          => IF particleContainer
               THEN /\ particles' = C8_Count(viewport)
                    /\ particleContainer'
               ELSE /\ particles' = particles
                    /\ ~particleContainer'
                    /\ lastLog' = lastLog
      ]_vars

\* a resize pass on a wide viewport has replaced the particles that two
\* init() calls had appended
C15_Witness ==
    /\ passes.resize = 1
    /\ inits = 2
    /\ viewport.width = 1921
    /\ particles = 75

\* the effects of the first j state-changing calls of init() (in the order
\* createParticles, initTypingAnimation, initSmoothScrolling,
\* initContactForm, initCardEffects, the two bind(), the two
\* addEventListener, revealOnScroll, updateNavbar) and of no later one
C16_Effects(j) ==
    LET n == inits + 1 IN
    /\ particles' = IF j >= 1 THEN particles + C8_Count(viewport)
                              ELSE particles
    /\ particleContainer' = (particleContainer \/ j >= 1)
    /\ Len(cycles') = IF j >= 2 THEN Len(cycles) + 1 ELSE Len(cycles)
    /\ Len(timers') = IF j >= 2 THEN Len(timers) + 1 ELSE Len(timers)
    /\ bound'.click = IF j >= 3 THEN bound.click + 1 ELSE bound.click
    /\ bound'.submit = IF j >= 4 THEN bound.submit + 1 ELSE bound.submit
    /\ bound'.hover = IF j >= 5 THEN bound.hover + 1 ELSE bound.hover
    /\ handlers' = IF j >= 6 THEN [ scroll |-> n, resize |-> n ] ELSE handlers
    /\ windowListeners' =
          IF j >= 7 THEN [ scroll |-> windowListeners.scroll \cup {n},
                           resize |-> windowListeners.resize \cup {n} ]
                    ELSE windowListeners
    /\ fadeVisible' = IF j >= 8 THEN (fadeVisible \/ scrollY > 50)
                                ELSE fadeVisible
    /\ navbarScrolled' = IF j >= 9 THEN scrollY > 50 ELSE navbarScrolled

\* C16: when the k-th call of init() throws, init() catches it (the error
\* is logged, nothing is reported as uncaught), isInitialized stays false,
\* and the effects of the k - 1 calls before it are in place; isInitialized
\* becomes true only in an init() whose calls have all returned, the
\* listener registration and the scroll evaluation included.
C16_InitBestEffort ==
    [][ /\ ( inits' = inits + 1
             /\ lastLog'[1] = "Failed to initialize portfolio" )
              => /\ ~isInitialized /\ ~isInitialized'
                 /\ lastLog'[2] \in 1..9
                 /\ C16_Effects(lastLog'[2] - 1)
        /\ ( ~isInitialized /\ isInitialized' )
              => /\ inits' = inits + 1
                 /\ handlers'.scroll \in windowListeners'.scroll
                 /\ handlers'.resize \in windowListeners'.resize
                 /\ navbarScrolled' = (scrollY > 50)
                 /\ fadeVisible' = (fadeVisible \/ scrollY > 50)
                 /\ particles' = particles + C8_Count(viewport)
                 /\ bound'.submit = bound.submit + 1
        /\ ( inits' = inits + 1 /\ ~isInitialized' )
              => lastLog'[1] = "Failed to initialize portfolio"
      ]_vars

\* the last call of init(), updateNavbar(), has thrown: the listeners are
\* registered and the particles are there, isInitialized is false
C16_Witness ==
    /\ lastLog = << "Failed to initialize portfolio", 9 >>
    /\ ~isInitialized
    /\ windowListeners.scroll # {}
    /\ particles > 0
    /\ cycles # << >>

\* C17: an init() that follows a destroy() leaves isDestroyed false, and
\* from then on, as after the first init(), a scroll event has a frame
\* request pending and the initial-delay timer of the new cycle starts the
\* reveal of the first text.
C17_ReinitActive ==
    [][ /\ (lifecycle = "destroy" /\ inits >= 1 /\ inits' = inits + 1)
              => ~isDestroyed'
        /\ (lifecycle = "init" /\ \E y \in ScrollYs : ScrollEvent(y))
              => rafScroll' = 1
        /\ (lifecycle = "init" /\ InitialDelayTimer(Len(cycles)))
              => /\ cycles'[Len(cycles)].phase = "typing"
                 /\ typingHTML' = SubSeq(TextAt(0), 1, 1)
      ]_vars

\* C18: the background container holds no particle or exactly the count
\* computed for the viewport when particles were last created, and never
\* more than maxCount: every step that changes the number of particles
\* leaves the count of the viewport, also the init() that follows a
\* destroy().
C18_OneParticleSet ==
    [][ /\ particles' # particles => particles' = C8_Count(viewport)
        /\ particles' <= config.particles.maxCount
      ]_vars

\* C19: whatever the submit events and their timing, every revert timer
\* restores the label the control had before the first submission, and when
\* no timer is left the control shows that label and is enabled.
C19_RevertRestoresOriginal ==
    [][ /\ RevertTimer => btn'.text = OriginalLabel
        /\ submissions' = << >> => btn' = idleButton
      ]_vars

\* C20: typingController is the AbortController of every typeWriter loop
\* that is in flight: no loop is in flight whose controller the manager does
\* not reference.
C20_ControllerOfReveal ==
    \A k \in Revealing : typingController = k


\* the cycles that were started before a destroy(): init() starts a cycle
\* only while isInitialized is false, which after the first init() only
\* destroy() makes it, so every cycle but the newest was started before a
\* destroy(), and the newest one too when destroy() was the last lifecycle
\* call
StartedBeforeDestroy ==
    { k \in DOMAIN cycles : k < Len(cycles) \/ lifecycle = "destroy" }

\* the identifier of every cycle differs from those of all earlier cycles
\* (the reason C21 gives; two init() calls within one millisecond refute it)
DistinctIds ==
    \A j, k \in DOMAIN cycles :
        j < k => cycles[j].animationId # cycles[k].animationId

\* C21: the initial-delay or pause callback of a typing cycle that was
\* started before a destroy() never starts or continues a reveal after that
\* destroy(), also after a later init() or a tab-visible event: the
\* identifiers of the cycles are pairwise distinct, so the callback fails
\* the activeAnimations check and leaves the text and the controller alone.
C21_StaleCallbackInert ==
    [][ \A k \in StartedBeforeDestroy :
          cycles[k].phase \in {"initialDelay", "pause"}
            => /\ cycles'[k].phase # "typing"
               /\ cycles'[k].phase # cycles[k].phase
                    => UNCHANGED << typingHTML, typingController >>
      ]_vars

=============================================================================
